---- MODULE Spec2Model ----
(***************************************************************************)
(* Model of combine_mrc_stacks.py: the image-reference codec, the star     *)
(* file reader and writer, and the image gatherer process_images.          *)
(*                                                                         *)
(* A Python str is a sequence of one-character strings, so that strip,     *)
(* split, re.match and the format specification are computed and not       *)
(* assumed.  A text file is the sequence of its lines, each without its    *)
(* terminating "\n".                                                       *)
(***************************************************************************)
EXTENDS Integers, Sequences, FiniteSets, TLC

VARIABLES
    pc,                 \* position of the running function
    \* ---- parse_image_reference and the f"{i:06d}@{name}" format
    ref_index,          \* the index i that is encoded
    ref_name,           \* the filename that is encoded
    ref_string,         \* the encoded reference
    parsed,             \* what parse_image_reference returned
    reencoded,          \* the result re-encoded
    \* ---- read_star_file / save_star_file
    lines,              \* the input star file
    image_column_name,  \* the requested column
    table,              \* what read_star_file returned
    out_lines,          \* the file save_star_file wrote
    table2,             \* what read_star_file returned on that file
    \* ---- process_images
    df,                 \* the table: a sequence of rows
    given,              \* the table and the output file when process_images was called
    files,              \* the MRC files of input_dir
    output_stack_path,  \* where the stack is written
    out_file,           \* the file at output_stack_path
    image_refs,         \* decoded references
    images,             \* loaded planes
    i,                  \* loop counter
    err                 \* the exception that ended process_images

codecVars == <<ref_index, ref_name, ref_string, parsed, reencoded>>
starVars == <<lines, image_column_name, table, out_lines, table2>>
gatherVars == <<df, given, files, output_stack_path, out_file, image_refs, images, i, err>>
vars == <<pc, codecVars, starVars, gatherVars>>

(***************************************************************************)
(* Bounds of the model.                                                    *)
(***************************************************************************)
MaxNameLen == 2
MaxIdx == 2

(***************************************************************************)
(* Python str and int helpers.                                             *)
(***************************************************************************)
Digits == <<"0", "1", "2", "3", "4", "5", "6", "7", "8", "9">>

IsDigit(c) == \E d \in 1..10 : Digits[d] = c

DigitVal(c) == (CHOOSE d \in 1..10 : Digits[d] = c) - 1

\* str(n) for n >= 0
RECURSIVE IntToStr(_)
IntToStr(n) ==
    IF n < 10 THEN <<Digits[n + 1]>>
    ELSE Append(IntToStr(n \div 10), Digits[(n % 10) + 1])

\* int(s) for a string of decimal digits
RECURSIVE StrToInt(_)
StrToInt(s) ==
    IF s = <<>> THEN 0
    ELSE 10 * StrToInt(SubSeq(s, 1, Len(s) - 1)) + DigitVal(s[Len(s)])

RECURSIVE Zeros(_)
Zeros(n) == IF n <= 0 THEN <<>> ELSE <<"0">> \o Zeros(n - 1)

PadWidth == 6

\* f"{n:06d}": the width is a minimum
FormatIndex(n) ==
    LET d == IntToStr(n)
    IN  Zeros(PadWidth - Len(d)) \o d

\* f"{index:06d}@{name}"
FormatReference(index, name) == FormatIndex(index) \o <<"@">> \o name

\* length of the longest prefix of s made of digits: the greedy (\d+)
RECURSIVE DigitPrefixLen(_)
DigitPrefixLen(s) ==
    IF s = <<>> \/ ~IsDigit(Head(s)) THEN 0
    ELSE 1 + DigitPrefixLen(Tail(s))

\* length of the longest prefix of s without a line feed: the greedy (.+)
RECURSIVE DotPrefixLen(_)
DotPrefixLen(s) ==
    IF s = <<>> \/ Head(s) = "\n" THEN 0
    ELSE 1 + DotPrefixLen(Tail(s))

ValueError == [ok |-> FALSE, exc |-> "ValueError"]

\* a faulty variant that requires the whole rest to be free of '@': (\d+)@([^@]+)$
parse_image_reference_NoAt(ref_str) ==
    LET n == DigitPrefixLen(ref_str)
        rest == SubSeq(ref_str, n + 2, Len(ref_str))
    IN  IF /\ n >= 1
           /\ Len(ref_str) >= n + 1
           /\ ref_str[n + 1] = "@"
           /\ DotPrefixLen(rest) >= 1
           /\ \A k \in 1..Len(rest) : rest[k] # "@"
        THEN [ok |-> TRUE,
              index |-> StrToInt(SubSeq(ref_str, 1, n)),
              filename |-> SubSeq(rest, 1, DotPrefixLen(rest))]
        ELSE ValueError

\* re.match(r'(\d+)@(.+)', ref_string): anchored at the start only
parse_image_reference(ref_str) ==
    LET n == DigitPrefixLen(ref_str)
        rest == SubSeq(ref_str, n + 2, Len(ref_str))
    IN  IF /\ n >= 1
           /\ Len(ref_str) >= n + 1
           /\ ref_str[n + 1] = "@"
           /\ DotPrefixLen(rest) >= 1
        THEN [ok |-> TRUE,
              index |-> StrToInt(SubSeq(ref_str, 1, n)),
              filename |-> SubSeq(rest, 1, DotPrefixLen(rest))]
        ELSE ValueError

(***************************************************************************)
(* The codec on its own: encode, decode, encode again.                     *)
(***************************************************************************)
NameChars == {"a", ".", "@", "7", "\n"}

\* the sequences of at most n elements of S
SeqsUpTo(S, n) == UNION {[1..k -> S] : k \in 0..n}

Names == SeqsUpTo(NameChars, MaxNameLen)

\* small indices, and the two sides of the 6-digit width
Indices == (0..MaxIdx) \cup {12, 999999, 1000000, 1000000 + MaxIdx}

None == <<"<None>">>

CodecInit ==
    /\ pc = "codec_start"
    /\ ref_index \in Indices
    /\ ref_name \in Names
    /\ ref_string = None
    /\ parsed = None
    /\ reencoded = None
    /\ lines = <<>> /\ image_column_name = None /\ table = None
    /\ out_lines = None /\ table2 = None
    /\ df = <<>> /\ given = None /\ files = <<>> /\ output_stack_path = None /\ out_file = None
    /\ image_refs = <<>> /\ images = <<>> /\ i = 0 /\ err = None

Encode ==
    /\ pc = "codec_start"
    /\ ref_string' = FormatReference(ref_index, ref_name)
    /\ pc' = "encoded"
    /\ UNCHANGED <<ref_index, ref_name, parsed, reencoded, starVars, gatherVars>>

Decode ==
    /\ pc = "encoded"
    /\ parsed' = parse_image_reference(ref_string)
    /\ pc' = "decoded"
    /\ UNCHANGED <<ref_index, ref_name, ref_string, reencoded, starVars, gatherVars>>

Reencode ==
    /\ pc = "decoded"
    /\ parsed.ok
    /\ reencoded' = FormatReference(parsed.index, parsed.filename)
    /\ pc' = "reencoded"
    /\ UNCHANGED <<ref_index, ref_name, ref_string, parsed, starVars, gatherVars>>

CodecNext == Encode \/ Decode \/ Reencode

SpecCodec == CodecInit /\ [][CodecNext]_vars

(***************************************************************************)
(* str.strip, str.split and str.join.                                      *)
(***************************************************************************)
IsSpace(c) == c \in {" ", "\t", "\n", "\r"}

RECURSIVE LStrip(_)
LStrip(s) == IF s # <<>> /\ IsSpace(Head(s)) THEN LStrip(Tail(s)) ELSE s

RECURSIVE RStrip(_)
RStrip(s) ==
    IF s # <<>> /\ IsSpace(s[Len(s)]) THEN RStrip(SubSeq(s, 1, Len(s) - 1)) ELSE s

\* s.strip()
Strip(s) == RStrip(LStrip(s))

\* length of the longest prefix of s without whitespace
RECURSIVE TokenLen(_)
TokenLen(s) ==
    IF s = <<>> \/ IsSpace(Head(s)) THEN 0 ELSE 1 + TokenLen(Tail(s))

\* s.split(): the maximal runs of non-whitespace characters
RECURSIVE Split(_)
Split(s) ==
    LET t == LStrip(s)
        n == TokenLen(t)
    IN  IF t = <<>> THEN <<>>
        ELSE <<SubSeq(t, 1, n)>> \o Split(SubSeq(t, n + 1, Len(t)))

\* str(val) of a table value: a parsed token is itself, None is "None"
Str(val) == IF val = None THEN <<"N", "o", "n", "e">> ELSE val

\* ' '.join(str(val) for val in row)
RECURSIVE JoinRow(_)
JoinRow(row) ==
    IF row = <<>> THEN <<>>
    ELSE IF Len(row) = 1 THEN Str(row[1])
    ELSE Str(row[1]) \o <<" ">> \o JoinRow(Tail(row))

(***************************************************************************)
(* read_star_file.  Line numbers are Python's: lines[k] is ls[k + 1].      *)
(***************************************************************************)
DATA_PARTICLES == <<"d", "a", "t", "a", "_", "p", "a", "r", "t", "i", "c", "l", "e", "s">>
DATA_ == <<"d", "a", "t", "a", "_">>
LOOP_ == <<"l", "o", "o", "p", "_">>

NoIndex == -1   \* Python's None for data_start and header_start

ScanStart ==
    [data_start |-> NoIndex, header_start |-> NoIndex, column_names |-> <<>>,
     broke |-> FALSE]

\* one iteration of the scanning loop on lines[k] = line
ScanLine(st, k, line) ==
    LET s == Strip(line)
    IN  IF s = DATA_PARTICLES \/ s = DATA_
        THEN [st EXCEPT !.data_start = k]
        ELSE IF s = LOOP_ /\ st.data_start # NoIndex
        THEN [st EXCEPT !.header_start = k + 1]
        ELSE IF st.header_start # NoIndex /\ s # <<>> /\ s[1] = "_"
        THEN [st EXCEPT !.column_names = Append(@, Tail(Split(s)[1]))]
        ELSE IF st.header_start # NoIndex /\ st.column_names # <<>>
                /\ (s = <<>> \/ s[1] # "_")
        THEN [st EXCEPT !.data_start = k, !.broke = TRUE]
        ELSE st

\* the scanning loop from lines[k] on, until break or the end of the file
RECURSIVE Scan(_, _, _)
Scan(ls, k, st) ==
    IF k >= Len(ls) \/ st.broke THEN st
    ELSE Scan(ls, k + 1, ScanLine(st, k, ls[k + 1]))

\* the data rows: the non-blank lines of lines[from:] not starting with '#'
RECURSIVE DataRows(_, _)
DataRows(ls, from) ==
    IF from >= Len(ls) THEN <<>>
    ELSE LET s == Strip(ls[from + 1])
         IN  (IF s # <<>> /\ s[1] # "#" THEN <<Split(s)>> ELSE <<>>)
                 \o DataRows(ls, from + 1)

RECURSIVE MaxRowLen(_)
MaxRowLen(rows) ==
    IF rows = <<>> THEN 0
    ELSE LET m == MaxRowLen(Tail(rows))
         IN  IF Len(Head(rows)) > m THEN Len(Head(rows)) ELSE m

PadRow(row, width) == [c \in 1..width |-> IF c <= Len(row) THEN row[c] ELSE None]

\* pd.DataFrame(data_rows, columns=column_names): the rows are padded with
\* None to the longest row, and that width must be the number of columns
DataFrame(data_rows, column_names) ==
    IF data_rows = <<>>
    THEN [ok |-> TRUE, columns |-> column_names, rows |-> <<>>]
    ELSE IF MaxRowLen(data_rows) # Len(column_names)
    THEN ValueError
    ELSE [ok |-> TRUE, columns |-> column_names,
          rows |-> [r \in 1..Len(data_rows) |->
                        PadRow(data_rows[r], Len(column_names))]]

HasColumn(t, name) == \E c \in 1..Len(t.columns) : t.columns[c] = name

\* a faulty variant that returns the table without looking for the image column
read_star_file_NoColumnCheck(ls, column) ==
    LET st == Scan(ls, 0, ScanStart)
    IN  IF st.header_start = NoIndex \/ st.data_start = NoIndex
        THEN ValueError
        ELSE DataFrame(DataRows(ls, st.data_start), st.column_names)

read_star_file(ls, column) ==
    LET st == Scan(ls, 0, ScanStart)
    IN  IF st.header_start = NoIndex \/ st.data_start = NoIndex
        THEN ValueError
        ELSE LET t == DataFrame(DataRows(ls, st.data_start), st.column_names)
             IN  IF t.ok /\ ~HasColumn(t, column) THEN ValueError ELSE t

(***************************************************************************)
(* save_star_file.                                                         *)
(***************************************************************************)
\* index of the first line that is "loop_", NoIndex when there is none
RECURSIVE FirstLoop(_, _)
FirstLoop(ls, k) ==
    IF k >= Len(ls) THEN NoIndex
    ELSE IF Strip(ls[k + 1]) = LOOP_ THEN k
    ELSE FirstLoop(ls, k + 1)

\* the column headers: the stripped lines from lines[k] on that start with '_'
RECURSIVE ColumnHeaders(_, _)
ColumnHeaders(ls, k) ==
    IF k < Len(ls) /\ Strip(ls[k + 1]) # <<>> /\ Strip(ls[k + 1])[1] = "_"
    THEN <<Strip(ls[k + 1])>> \o ColumnHeaders(ls, k + 1)
    ELSE <<>>

\* the lines written to output_path, or the ValueError; the check of line
\* 128 is taken as part of the function, as the lines after it are
save_star_file(t, original) ==
    LET data_start == FirstLoop(original, 0)
    IN  IF data_start = NoIndex THEN ValueError
        ELSE [ok |-> TRUE,
              written |-> SubSeq(original, 1, data_start + 1)
                            \o ColumnHeaders(original, data_start + 1)
                            \o [r \in 1..Len(t.rows) |-> JoinRow(t.rows[r])]]

(***************************************************************************)
(* The table reader and writer on their own: read a file, save the table   *)
(* with the file as the original, read what was saved.                     *)
(***************************************************************************)
MaxLines == 5

COL_A == <<"_", "a">>
COL_B == <<"_", "b", " ", "#", "2", " ">>
ROW_1 == <<"x">>
ROW_2 == <<"x", " ", "y">>
BLANK == <<>>
COMMENT == <<"#", " ", "c">>

LinePool == {DATA_PARTICLES, DATA_, LOOP_, COL_A, COL_B, ROW_1, ROW_2, BLANK, COMMENT}

\* a block of two declared columns, as RELION writes it
TwoColumns == <<DATA_PARTICLES, LOOP_, COL_A, COL_B>>

MaxRowLines == 2

\* every file of up to MaxLines lines of the pool, and the two-column block
\* followed by up to MaxRowLines lines of the pool
StarFiles ==
    SeqsUpTo(LinePool, MaxLines)
        \cup {TwoColumns \o f : f \in SeqsUpTo(LinePool, MaxRowLines)}

StarInit ==
    /\ pc = "star_start"
    /\ lines \in StarFiles
    /\ image_column_name = <<"a">>
    /\ table = None /\ out_lines = None /\ table2 = None
    /\ ref_index = 0 /\ ref_name = <<>> /\ ref_string = None
    /\ parsed = None /\ reencoded = None
    /\ df = <<>> /\ given = None /\ files = <<>> /\ output_stack_path = None /\ out_file = None
    /\ image_refs = <<>> /\ images = <<>> /\ i = 0 /\ err = None

ReadStarFile ==
    /\ pc = "star_start"
    /\ table' = read_star_file(lines, image_column_name)
    /\ pc' = "read_done"
    /\ UNCHANGED <<lines, image_column_name, out_lines, table2, codecVars, gatherVars>>

SaveStarFile ==
    /\ pc = "read_done"
    /\ table.ok
    /\ out_lines' = save_star_file(table, lines)
    /\ pc' = "saved"
    /\ UNCHANGED <<lines, image_column_name, table, table2, codecVars, gatherVars>>

ReadBack ==
    /\ pc = "saved"
    /\ out_lines.ok
    /\ table2' = read_star_file(out_lines.written, image_column_name)
    /\ pc' = "read_back"
    /\ UNCHANGED <<lines, image_column_name, table, out_lines, codecVars, gatherVars>>

StarNext == ReadStarFile \/ SaveStarFile \/ ReadBack

SpecStar == StarInit /\ [][StarNext]_vars

(***************************************************************************)
(* What the specification says of a star file, stated on the lines alone.  *)
(***************************************************************************)
IsBlockLine(l) == Strip(l) = DATA_PARTICLES \/ Strip(l) = DATA_
IsLoopLine(l) == Strip(l) = LOOP_
IsDeclLine(l) == Strip(l) # <<>> /\ Strip(l)[1] = "_"

NoBlockMarker(ls) == \A a \in 1..Len(ls) : ~IsBlockLine(ls[a])

NoLoopAfterBlock(ls) ==
    ~\E a, b \in 1..Len(ls) : a < b /\ IsBlockLine(ls[a]) /\ IsLoopLine(ls[b])

NoDeclAfterLoop(ls) ==
    ~\E a, b, c \in 1..Len(ls) :
        a < b /\ b < c /\ IsBlockLine(ls[a]) /\ IsLoopLine(ls[b]) /\ IsDeclLine(ls[c])

ColumnAbsent(ls, column) ==
    LET names == Scan(ls, 0, ScanStart).column_names
    IN  \A c \in 1..Len(names) : names[c] # column

\* number of lines up to and including the last line of the declaration
\* block: the block starts at the first declaration after the loop marker
\* and ends before the first line that is not a declaration
HeaderEnd(ls) ==
    LET first == CHOOSE c \in 1..Len(ls) :
                    /\ \E a, b \in 1..Len(ls) :
                          a < b /\ b < c /\ IsBlockLine(ls[a]) /\ IsLoopLine(ls[b])
                    /\ IsDeclLine(ls[c])
                    /\ \A d \in 1..(c - 1) :
                          ~(/\ IsDeclLine(ls[d])
                            /\ \E a, b \in 1..Len(ls) :
                                  a < b /\ b < d /\ IsBlockLine(ls[a]) /\ IsLoopLine(ls[b]))
        stops == {e \in (first + 1)..Len(ls) : ~IsDeclLine(ls[e])}
    IN  IF stops = {} THEN Len(ls)
        ELSE (CHOOSE e \in stops : \A e2 \in stops : e <= e2) - 1

\* C7: read_star_file raises ValueError, and returns no table, when the file
\* has no block marker, or no loop_ line after a block marker, or no column
\* declaration after that, or when the requested column was not declared.
C7_FormatErrors ==
    (/\ pc = "read_done"
     /\ \/ NoBlockMarker(lines)
        \/ NoLoopAfterBlock(lines)
        \/ NoDeclAfterLoop(lines)
        \/ ColumnAbsent(lines, image_column_name))
        => table = ValueError

\* a file with block and loop markers and no declaration: the error comes
\* from the DataFrame constructor
C7_Witness ==
    /\ pc = "read_done"
    /\ ~NoLoopAfterBlock(lines)
    /\ NoDeclAfterLoop(lines)
    /\ Len(lines) = 3
    /\ table = ValueError

\* the table text format: the block marker, the loop marker, one or more
\* column declarations, then lines that are none of these
WellFormed(ls) ==
    \E e \in 3..Len(ls) :
        /\ IsBlockLine(ls[1])
        /\ IsLoopLine(ls[2])
        /\ \A k \in 3..e : IsDeclLine(ls[k])
        /\ \A k \in (e + 1)..Len(ls) :
              ~IsDeclLine(ls[k]) /\ ~IsBlockLine(ls[k]) /\ ~IsLoopLine(ls[k])

NoNone(t) ==
    \A r \in 1..Len(t.rows) : \A c \in 1..Len(t.rows[r]) : t.rows[r][c] # None

\* the returned rows are those of the lines after the declaration block
RowsAfterHeader ==
    LET data == DataRows(lines, HeaderEnd(lines))
    IN  /\ Len(table.rows) = Len(data)
        /\ \A r \in 1..Len(data) :
              table.rows[r] = PadRow(data[r], Len(table.columns))

\* C6: a table that read_star_file returns holds no padded row, and the read
\* fails when a line of the data-row region has not one token per column.
\* Stated for the files in the table text format whose data-row region is
\* found as C9 says.
C6_NoPaddedRow ==
    (pc = "read_done" /\ table.ok /\ WellFormed(lines) /\ RowsAfterHeader) =>
        /\ \A r \in 1..Len(table.rows) :
              \A c \in 1..Len(table.rows[r]) : table.rows[r][c] # None
        /\ LET data == DataRows(lines, Scan(lines, 0, ScanStart).data_start)
           IN  \A r \in 1..Len(data) : Len(data[r]) = Len(table.columns)

\* C9: the rows of the returned table are the non-blank lines not starting
\* with '#' after the declaration block, in file order; none when the file
\* ends with the declarations.
C9_RowsAfterHeader == (pc = "read_done" /\ table.ok) => RowsAfterHeader

\* C8: save_star_file writes the lines of the original file up to the last
\* column declaration unchanged, then one line per row of the table.
\* Stated for the files in the table text format whose rows are read as C9
\* and C6 say.
C8_PreambleVerbatim ==
    (/\ pc = "saved" /\ out_lines.ok
     /\ WellFormed(lines) /\ RowsAfterHeader /\ NoNone(table)) =>
        out_lines.written =
            SubSeq(lines, 1, HeaderEnd(lines))
                \o [r \in 1..Len(table.rows) |-> JoinRow(table.rows[r])]

\* C3: reading what save_star_file wrote gives back the columns and the rows
\* of the table that was saved.  Stated for the tables of at least one row
\* whose rows are read as C9 and C6 say.
C3_RoundTrip ==
    (pc = "read_back" /\ RowsAfterHeader /\ NoNone(table) /\ table.rows # <<>>) =>
        /\ table2.ok
        /\ table2.columns = table.columns
        /\ table2.rows = table.rows

(***************************************************************************)
(* process_images.                                                         *)
(***************************************************************************)
MaxRows == 3
MaxPlanes == 2

\* the table has the image column and one other column
ImageCol == 1
OtherValue == <<"x">>

FileNames == {<<"a">>, <<"b">>}

\* what mrcfile.open finds at a path of input_dir: nothing, a single image
\* (mrc.data.ndim = 2) or a stack (ndim = 3) of n planes; shape is (H, W)
Absent == [kind |-> "absent"]
SingleImage(shape) == [kind |-> "single", shape |-> shape]
Stack(n, shape) == [kind |-> "stack", n |-> n, shape |-> shape]

\* the contents of input_dir
Directories ==
    {[name \in FileNames |-> IF name = <<"a">> THEN fa ELSE fb] :
        fa \in {Absent, Stack(MaxPlanes, "10x10")},
        fb \in {Absent, SingleImage("10x10"), SingleImage("8x8")}}

\* mrc.data[k] of a stack, mrc.data of a single image (plane -1)
Plane(name, k, shape) == [file |-> name, plane |-> k, shape |-> shape]

\* a faulty variant that takes the last plane for an index past the stack
\* and the image of a single-image file whatever the index
LoadPlaneLenient(dir, img_idx, filename) ==
    IF filename \notin DOMAIN dir \/ dir[filename].kind = "absent"
    THEN [ok |-> FALSE, exc |-> "FileNotFoundError"]
    ELSE IF dir[filename].kind = "stack"
    THEN IF img_idx >= dir[filename].n
         THEN [ok |-> TRUE,
               plane |-> Plane(filename, dir[filename].n - 1, dir[filename].shape)]
         ELSE [ok |-> TRUE, plane |-> Plane(filename, img_idx, dir[filename].shape)]
    ELSE [ok |-> TRUE, plane |-> Plane(filename, -1, dir[filename].shape)]

\* the body of the loading loop for one reference: the plane, or the exception
LoadPlane(dir, img_idx, filename) ==
    IF filename \notin DOMAIN dir \/ dir[filename].kind = "absent"
    THEN [ok |-> FALSE, exc |-> "FileNotFoundError"]
    ELSE IF dir[filename].kind = "stack"
    THEN IF img_idx >= dir[filename].n
         THEN [ok |-> FALSE, exc |-> "IndexError"]
         ELSE [ok |-> TRUE, plane |-> Plane(filename, img_idx, dir[filename].shape)]
    ELSE IF img_idx # 0
         THEN [ok |-> FALSE, exc |-> "IndexError"]
         ELSE [ok |-> TRUE, plane |-> Plane(filename, -1, dir[filename].shape)]

\* insertion of the pair x into a sequence of pairs sorted by their first
\* component, after the pairs of the same key
RECURSIVE Insert(_, _)
Insert(sorted, x) ==
    IF sorted = <<>> THEN <<x>>
    ELSE IF x[1] < Head(sorted)[1] THEN <<x>> \o sorted
    ELSE <<Head(sorted)>> \o Insert(Tail(sorted), x)

\* sorted(pairs, key=lambda x: x[0]): stable
RECURSIVE Sorted(_)
Sorted(pairs) ==
    IF pairs = <<>> THEN <<>>
    ELSE Insert(Sorted(SubSeq(pairs, 1, Len(pairs) - 1)), pairs[Len(pairs)])

\* enumerate(image_refs)
Enumerate(refs) == [k \in 1..Len(refs) |-> <<k - 1, refs[k]>>]

\* a faulty variant that sorts by the decoded index
image_refs_sorted_ByIndex(refs) ==
    Sorted([k \in 1..Len(refs) |-> <<refs[k].index, refs[k]>>])

\* sorted(enumerate(image_refs), key=lambda x: x[0])
image_refs_sorted(refs) == Sorted(Enumerate(refs))

\* os.path.basename(path): what follows the last '/'
RECURSIVE Basename(_)
Basename(path) ==
    IF \E k \in 1..Len(path) : path[k] = "/"
    THEN Basename(Tail(path))
    ELSE path

\* a faulty variant that keeps each row's decoded index
NewReferencesKeepingIndex(d, refs, path) ==
    [k \in 1..Len(d) |->
        [d[k] EXCEPT ![ImageCol] = FormatReference(refs[k].index, Basename(path))]]

\* the rewriting loop: df.at[i, image_column] = f"{i:06d}@{output_filename}"
NewReferences(d, refs, path) ==
    [k \in 1..Len(d) |->
        [d[k] EXCEPT ![ImageCol] = FormatReference(k - 1, Basename(path))]]

\* np.stack(images, axis=0) raises ValueError for no image and for images
\* of different shapes
CanStack(imgs) ==
    /\ imgs # <<>>
    /\ \A k \in 1..Len(imgs) : imgs[k].shape = imgs[1].shape

Malformed == <<"a", "@", "1">>
Unpadded == <<"1", "@", "a">>

\* the values of the image column
References ==
    {FormatReference(k, name) : k \in 0..MaxPlanes, name \in FileNames}
        \cup {Malformed, Unpadded}

\* the tables of at most MaxRows rows
Tables ==
    {[k \in 1..Len(refs) |-> <<refs[k], OtherValue>>] :
        refs \in SeqsUpTo(References, MaxRows)}

\* the file at output_stack_path: none, one left by an earlier run, or the
\* stack written by mrcfile.new
NoFile == [state |-> "none", planes |-> <<>>]
OldFile == [state |-> "old", planes |-> <<>>]
Written(planes) == [state |-> "written", planes |-> planes]

OutputPaths == {<<"o">>, <<"d", "/", "o">>}

Init ==
    /\ pc = "start"
    /\ df \in Tables
    /\ files \in Directories
    /\ output_stack_path \in OutputPaths
    /\ out_file \in {NoFile, OldFile}
    /\ given = [df |-> df, out_file |-> out_file]
    /\ image_refs = <<>> /\ images = <<>> /\ i = 0 /\ err = None
    /\ ref_index = 0 /\ ref_name = <<>> /\ ref_string = None
    /\ parsed = None /\ reencoded = None
    /\ lines = <<>> /\ image_column_name = None /\ table = None
    /\ out_lines = None /\ table2 = None

\* lines 71-74: decode every reference, in row order
ParseRefs ==
    /\ pc = "start"
    /\ LET decoded == [k \in 1..Len(df) |-> parse_image_reference(df[k][ImageCol])]
       IN  IF \E k \in 1..Len(df) : ~decoded[k].ok
           THEN /\ pc' = "failed"
                /\ err' = "ValueError"
                /\ UNCHANGED image_refs
           ELSE /\ pc' = "load"
                /\ image_refs' = decoded
                /\ UNCHANGED err
    /\ UNCHANGED <<df, given, files, output_stack_path, out_file, images, i,
                   codecVars, starVars>>

\* a faulty variant that writes the planes loaded so far when a row fails
LoadImageWritingPartial ==
    /\ pc = "load"
    /\ i < Len(image_refs)
    /\ LET ref == image_refs_sorted(image_refs)[i + 1][2]
           got == LoadPlane(files, ref.index, ref.filename)
       IN  IF got.ok
           THEN /\ images' = Append(images, got.plane)
                /\ i' = i + 1
                /\ UNCHANGED <<pc, err, out_file>>
           ELSE /\ pc' = "failed"
                /\ err' = got.exc
                /\ out_file' = Written(images)
                /\ UNCHANGED <<images, i>>
    /\ UNCHANGED <<df, given, files, output_stack_path, image_refs,
                   codecVars, starVars>>

\* lines 81-95: one iteration of the loading loop
LoadImage ==
    /\ pc = "load"
    /\ i < Len(image_refs)
    /\ LET ref == image_refs_sorted(image_refs)[i + 1][2]
           got == LoadPlane(files, ref.index, ref.filename)
       IN  IF got.ok
           THEN /\ images' = Append(images, got.plane)
                /\ i' = i + 1
                /\ UNCHANGED <<pc, err>>
           ELSE /\ pc' = "failed"
                /\ err' = got.exc
                /\ UNCHANGED <<images, i>>
    /\ UNCHANGED <<df, given, files, output_stack_path, out_file, image_refs,
                   codecVars, starVars>>

\* line 98: np.stack(images, axis=0)
StackImages ==
    /\ pc = "load"
    /\ i = Len(image_refs)
    /\ IF CanStack(images)
       THEN pc' = "write" /\ UNCHANGED err
       ELSE pc' = "failed" /\ err' = "ValueError"
    /\ UNCHANGED <<df, given, files, output_stack_path, out_file, image_refs,
                   images, i, codecVars, starVars>>

\* lines 101-102: mrcfile.new(output_stack_path, overwrite=True)
WriteStack ==
    /\ pc = "write"
    /\ out_file' = Written(images)
    /\ pc' = "update"
    /\ UNCHANGED <<df, given, files, output_stack_path, image_refs, images, i, err,
                   codecVars, starVars>>

\* lines 105-109: rewrite the image column and return
UpdateRefs ==
    /\ pc = "update"
    /\ df' = NewReferences(df, image_refs, output_stack_path)
    /\ pc' = "done"
    /\ UNCHANGED <<given, files, output_stack_path, out_file, image_refs, images, i,
                   err, codecVars, starVars>>

Next == ParseRefs \/ LoadImage \/ StackImages \/ WriteStack \/ UpdateRefs

Spec == Init /\ [][Next]_vars

(***************************************************************************)
(* Claims about the codec.                                                 *)
(***************************************************************************)
Decoded ==
    /\ pc \in {"decoded", "reencoded"} =>
          parsed = [ok |-> TRUE, index |-> ref_index, filename |-> ref_name]
    /\ (pc = "reencoded" /\ ref_index < 1000000) => reencoded = ref_string

\* C4 as stated: for every index and every filename, decoding the encoded
\* reference returns the index and the filename, and encoding that again
\* returns the same string.
C4_RoundTripAnyName == pc \in {"decoded", "reencoded"} => Decoded

\* a filename that (.+) matches whole: not empty, no line feed
MatchedWhole(name) == name # <<>> /\ \A k \in 1..Len(name) : name[k] # "\n"

\* C4 amended: the same for every filename that is not empty and holds no
\* line feed.
C4_RoundTrip ==
    (pc \in {"decoded", "reencoded"} /\ MatchedWhole(ref_name)) => Decoded

\* a filename made of a digit and '@', re-encoded to the same string
C4_Witness ==
    /\ pc = "reencoded"
    /\ ref_index = 12
    /\ ref_name = <<"7", "@">>
    /\ reencoded = ref_string

(***************************************************************************)
(* Claims about process_images.                                            *)
(***************************************************************************)
\* what follows the last '/' of path, found by where it starts
LastComponent(path) ==
    LET n == Len(path)
        s == CHOOSE s \in 1..(n + 1) :
                /\ s = 1 \/ path[s - 1] = "/"
                /\ \A k \in s..n : path[k] # "/"
    IN  SubSeq(path, s, n)

\* C1: after process_images has returned, row k (counted from 0) of the N
\* rows holds k padded to 6 digits, '@' and the basename of the output path.
C1_Reindexed ==
    pc = "done" =>
        /\ Len(df) = Len(given.df)
        /\ \A k \in 1..Len(df) :
              df[k][ImageCol] =
                  <<"0", "0", "0", "0", "0", Digits[k]>> \o <<"@">>
                      \o LastComponent(output_stack_path)

\* two rows that referenced plane 1 of a and b's image get 0 and 1
C1_Witness ==
    /\ pc = "done"
    /\ Len(df) = 2
    /\ given.df[1][ImageCol] = FormatReference(1, <<"a">>)
    /\ given.df[2][ImageCol] = FormatReference(0, <<"b">>)
    /\ output_stack_path = <<"d", "/", "o">>

\* the image that a reference selects in the directory
Selected(dir, ref) ==
    LET r == parse_image_reference(ref)
    IN  [file |-> r.filename,
         plane |-> IF dir[r.filename].kind = "stack" THEN r.index ELSE -1,
         shape |-> dir[r.filename].shape]

\* C2: after process_images has returned, the written stack has one plane
\* per row and plane k is the image that row k referenced.
C2_PlanesInRowOrder ==
    pc = "done" =>
        /\ Len(out_file.planes) = Len(given.df)
        /\ \A k \in 1..Len(given.df) :
              out_file.planes[k] = Selected(files, given.df[k][ImageCol])

\* rows referencing plane 1 of a, the image b, plane 0 of a
C2_Witness ==
    /\ pc = "done"
    /\ Len(given.df) = 3
    /\ given.df[1][ImageCol] = FormatReference(1, <<"a">>)
    /\ given.df[2][ImageCol] = FormatReference(0, <<"b">>)
    /\ given.df[3][ImageCol] = FormatReference(0, <<"a">>)

FileMissing(dir, ref) ==
    ref.filename \notin DOMAIN dir \/ dir[ref.filename].kind = "absent"

OutOfRange(dir, ref) ==
    /\ ~FileMissing(dir, ref)
    /\ \/ dir[ref.filename].kind = "stack" /\ ref.index >= dir[ref.filename].n
       \/ dir[ref.filename].kind = "single" /\ ref.index # 0

\* C5: the row that the loading loop is at ends the run with
\* FileNotFoundError when its file is missing and with IndexError when its
\* index is out of range, and nothing is loaded for it; no run gets past the
\* loading loop with such a row.
C5_BadRowAborts ==
    /\ [](pc \in {"write", "update", "done"} =>
            \A k \in 1..Len(image_refs) :
                ~FileMissing(files, image_refs[k]) /\ ~OutOfRange(files, image_refs[k]))
    /\ [][(pc = "load" /\ i < Len(image_refs)) =>
            /\ FileMissing(files, image_refs[i + 1]) =>
                  pc' = "failed" /\ err' = "FileNotFoundError" /\ images' = images
            /\ OutOfRange(files, image_refs[i + 1]) =>
                  pc' = "failed" /\ err' = "IndexError" /\ images' = images]_vars

\* the second row has a nonzero index into the single image b
C5_Witness ==
    /\ pc = "failed"
    /\ err = "IndexError"
    /\ i = 1
    /\ Len(images) = 1
    /\ image_refs[2] = [ok |-> TRUE, index |-> 1, filename |-> <<"b">>]

\* C10: when process_images has failed, the file at the output path and the
\* table are as they were given; they change only after every row was loaded.
C10_AllOrNothing ==
    /\ pc = "failed" => (out_file = given.out_file /\ df = given.df)
    /\ (out_file # given.out_file \/ df # given.df) =>
          /\ Len(image_refs) = Len(given.df)
          /\ Len(images) = Len(given.df)

\* the third row's file is missing, after two rows were loaded
C10_Witness ==
    /\ pc = "failed"
    /\ err = "FileNotFoundError"
    /\ Len(images) = 2
    /\ given.out_file = OldFile

====
